---- MODULE Spec2Model ----
\* A model of phps_sms/sms.py: the SMS client (its message queue and the
\* add/get/view/cancel/send operations), the number normalizer _valid_tr_to,
\* the message slicer _slice_tr_txtmsg and the response decoder
\* _decode_response.
\*
\* Text is a sequence of Unicode code points, encoded bytes are sequences of
\* integers 0..255, a phone number string is a sequence of one-character
\* strings.
EXTENDS Integers, Sequences, FiniteSets, TLC

VARIABLES
    data,      \* SMS.__data: the queue of entries (tr_to, tr_txtmsg) in order
    last,      \* the last call on the client: its arguments, what it raised,
               \* the POSTs it issued and what it returned
    num_in,    \* the argument of a call of _valid_tr_to
    num_out,   \* what that call returned or raised
    res_in,    \* the result of php_loads handed to _decode_response
    res_out    \* what _decode_response returned or raised

vars == <<data, last, num_in, num_out, res_in, res_out>>

----------------------------------------------------------------------------
\* Bounds of the model.

MaxQueue == 2     \* add() is called while the queue holds fewer entries
MaxNow == 1       \* the clock readings, in minutes
MaxGroup == 5     \* digits in a group of a phone number string
MaxItems == 2     \* entries of a gateway response mapping

\* Program constants.

MaxBytes == 90        \* len(txt_bytes) > 90
CharWindow == 44      \* len(popped) > 44
ReserveMinutes == 3   \* datetime.timedelta(minutes=3)

Rep(c, n) == [i \in 1..n |-> c]

----------------------------------------------------------------------------
\* SERVER_ENCODING = 'euc-kr', as CPython's codec encodes and decodes it:
\* ASCII is one byte, a KS X 1001 character two bytes, a Hangul syllable
\* outside KS X 1001 the eight-byte make-up sequence (0xA4 0xD4 and three
\* jamo), anything else raises UnicodeEncodeError.

KSX1001 == (44032 :> <<176, 161>>) @@ (12288 :> <<161, 161>>)
MakeUp == (46624 :> <<164, 212, 164, 168, 164, 199, 164, 177>>)

CanEncodeChar(c) == c < 128 \/ c \in DOMAIN KSX1001 \/ c \in DOMAIN MakeUp

EncodeChar(c) ==
    IF c < 128 THEN <<c>>
    ELSE IF c \in DOMAIN KSX1001 THEN KSX1001[c]
    ELSE MakeUp[c]

CanEncode(t) == \A i \in 1..Len(t) : CanEncodeChar(t[i])

\* str.encode('euc-kr'): the characters' bytes in order (the text is
\* encoded half by half).
RECURSIVE EucKrEncode(_)
EucKrEncode(t) ==
    IF Len(t) = 0 THEN <<>>
    ELSE IF Len(t) = 1 THEN EncodeChar(t[1])
    ELSE LET h == Len(t) \div 2 IN
         EucKrEncode(SubSeq(t, 1, h)) \o EucKrEncode(SubSeq(t, h + 1, Len(t)))

\* The number of bytes of the character that starts at b[i].
WidthAt(b, i) ==
    IF b[i] < 128 THEN 1
    ELSE IF b[i] = 164 /\ Len(b) >= i + 7 /\ b[i + 1] = 212 THEN 8
    ELSE 2

\* The index at which the c-th character after the one at b[i] starts.
RECURSIVE SkipChars(_, _, _)
SkipChars(b, i, c) ==
    IF c = 0 \/ i > Len(b) THEN i ELSE SkipChars(b, i + WidthAt(b, i), c - 1)

RECURSIVE DecodeRun(_)
DecodeRun(b) ==
    IF b = <<>> THEN <<>>
    ELSE LET w == WidthAt(b, 1)
             c == IF w = 1 THEN b[1]
                  ELSE IF w = 8
                      THEN CHOOSE x \in DOMAIN MakeUp : MakeUp[x] = SubSeq(b, 1, 8)
                  ELSE CHOOSE x \in DOMAIN KSX1001 : KSX1001[x] = SubSeq(b, 1, 2)
         IN  <<c>> \o DecodeRun(SubSeq(b, w + 1, Len(b)))

\* bytes.decode('euc-kr') of bytes the encoder produced: character by
\* character from the left (in runs of sixteen characters).
RECURSIVE EucKrDecode(_)
EucKrDecode(b) ==
    IF b = <<>> THEN <<>>
    ELSE LET k == SkipChars(b, 1, 16) IN
         DecodeRun(SubSeq(b, 1, k - 1)) \o EucKrDecode(SubSeq(b, k, Len(b)))

\* str.isspace() of the characters of the model: blank, tab, newline, the
\* no-break space and the ideographic space.
IsSpace(c) == c \in {32, 9, 10, 160, 12288}

\* str.strip(): the text from its first to its last character that is no
\* white space.
Strip(t) ==
    LET keep == {i \in 1..Len(t) : ~IsSpace(t[i])} IN
    IF keep = {} THEN <<>>
    ELSE SubSeq(t, CHOOSE i \in keep : \A j \in keep : i <= j,
                   CHOOSE i \in keep : \A j \in keep : i >= j)

----------------------------------------------------------------------------
\* _slice_tr_txtmsg: characters are popped one at a time into `popped`; once
\* more than 44 are held, the held text is encoded at every pop and, when
\* that is 89 or 90 bytes long, closed as a segment and `popped` cleared.
\* What is held when the text runs out is the last segment.
\*
\* SliceLoop is the loop at a point where `popped` is empty: txt_list is what
\* is left of the text, temp_sliced the segments closed so far. Held(n) is
\* `popped` after n more pops; the loop goes on popping until the first pop
\* at which the encoding raises or the segment closes.

RECURSIVE SliceLoop(_, _)
SliceLoop(txt_list, temp_sliced) ==
    LET Held(n) == SubSeq(txt_list, 1, n)
        stops == {n \in (CharWindow + 1)..Len(txt_list) :
                     \/ ~CanEncode(Held(n))
                     \/ Len(EucKrEncode(Held(n))) = 89
                     \/ Len(EucKrEncode(Held(n))) = 90}
    IN  IF stops = {} THEN
            IF txt_list = <<>> THEN [raised |-> "none", segs |-> temp_sliced]
            ELSE IF ~CanEncode(txt_list)
                THEN [raised |-> "UnicodeEncodeError", segs |-> <<>>]
            ELSE [raised |-> "none",
                  segs |-> Append(temp_sliced, EucKrEncode(txt_list))]
        ELSE LET n == CHOOSE i \in stops : \A j \in stops : i <= j IN
             IF ~CanEncode(Held(n))
                 THEN [raised |-> "UnicodeEncodeError", segs |-> <<>>]
             ELSE SliceLoop(SubSeq(txt_list, n + 1, Len(txt_list)),
                            Append(temp_sliced, EucKrEncode(Held(n))))

\* The slicer closing a segment at 89 bytes only.
RECURSIVE SliceLoop89(_, _)
SliceLoop89(txt_list, temp_sliced) ==
    LET Held(n) == SubSeq(txt_list, 1, n)
        stops == {n \in (CharWindow + 1)..Len(txt_list) :
                     \/ ~CanEncode(Held(n))
                     \/ Len(EucKrEncode(Held(n))) = 89}
    IN  IF stops = {} THEN
            IF txt_list = <<>> THEN [raised |-> "none", segs |-> temp_sliced]
            ELSE IF ~CanEncode(txt_list)
                THEN [raised |-> "UnicodeEncodeError", segs |-> <<>>]
            ELSE [raised |-> "none",
                  segs |-> Append(temp_sliced, EucKrEncode(txt_list))]
        ELSE LET n == CHOOSE i \in stops : \A j \in stops : i <= j IN
             IF ~CanEncode(Held(n))
                 THEN [raised |-> "UnicodeEncodeError", segs |-> <<>>]
             ELSE SliceLoop89(SubSeq(txt_list, n + 1, Len(txt_list)),
                              Append(temp_sliced, EucKrEncode(Held(n))))

slice_only89(tr_txtmsg) == SliceLoop89(tr_txtmsg, <<>>)

slice_tr_txtmsg(tr_txtmsg) == SliceLoop(tr_txtmsg, <<>>)

----------------------------------------------------------------------------
\* PATTERN_NUM and _valid_tr_to.
\*   ^(?P<num0>0\d0)?[\s\-\.]?(?P<num1>\d{3,4})[\s\-\.]?(?P<num2>\d{4})$

DigitChars == {"0", "1", "2", "3", "4", "5", "6", "7", "8", "9"}
SpaceChars == {" ", "\t"}
SepChars == SpaceChars \cup {"-", "."}

IsDigits(s) == \A i \in 1..Len(s) : s[i] \in DigitChars

RECURSIVE LStripStr(_)
LStripStr(s) == IF s # <<>> /\ Head(s) \in SpaceChars THEN LStripStr(Tail(s)) ELSE s

RECURSIVE RStripStr(_)
RStripStr(s) ==
    IF s # <<>> /\ s[Len(s)] \in SpaceChars
    THEN RStripStr(SubSeq(s, 1, Len(s) - 1)) ELSE s

StripStr(s) == RStripStr(LStripStr(s))

\* (?P<num0>0\d0): the group matches three characters '0', a digit, '0'.
Num0Matches(s) ==
    Len(s) = 3 /\ s[1] = "0" /\ s[2] \in DigitChars /\ s[3] = "0"

\* One way of matching: num0 taking n0 characters (3, or 0 when the group
\* does not take part), the separators taking k1 and k2 (1 or 0), num1 taking
\* n1. The match is anchored at both ends, so num2 takes the rest.
TryMatch(s, n0, k1, n1, k2) ==
    LET a == n0 + k1
        b == a + n1 + k2
    IN  /\ Len(s) = b + 4
        /\ (n0 = 3 => Num0Matches(SubSeq(s, 1, 3)))
        /\ (k1 = 1 => s[n0 + 1] \in SepChars)
        /\ IsDigits(SubSeq(s, a + 1, a + n1))
        /\ (k2 = 1 => s[a + n1 + 1] \in SepChars)
        /\ IsDigits(SubSeq(s, b + 1, b + 4))

\* The order in which the backtracking matcher tries the ways: each optional
\* item is tried present before absent, num1 with four digits before three.
MatchOrder ==
    << <<3,1,4,1>>, <<3,1,4,0>>, <<3,1,3,1>>, <<3,1,3,0>>,
       <<3,0,4,1>>, <<3,0,4,0>>, <<3,0,3,1>>, <<3,0,3,0>>,
       <<0,1,4,1>>, <<0,1,4,0>>, <<0,1,3,1>>, <<0,1,3,0>>,
       <<0,0,4,1>>, <<0,0,4,0>>, <<0,0,3,1>>, <<0,0,3,0>> >>

\* PATTERN_NUM.match(s): the groups of the first way that matches.
PatternMatch(s) ==
    LET hits == {i \in 1..Len(MatchOrder) :
                    TryMatch(s, MatchOrder[i][1], MatchOrder[i][2],
                             MatchOrder[i][3], MatchOrder[i][4])}
    IN  IF hits = {} THEN [matched |-> FALSE, num0 |-> <<>>, num1 |-> <<>>, num2 |-> <<>>]
        ELSE LET i == CHOOSE j \in hits : \A k \in hits : j <= k
                 w == MatchOrder[i]
                 a == w[1] + w[2]
                 b == a + w[3] + w[4]
             IN  [matched |-> TRUE,
                  num0 |-> SubSeq(s, 1, w[1]),
                  num1 |-> SubSeq(s, a + 1, a + w[3]),
                  num2 |-> SubSeq(s, b + 1, b + 4)]

DefaultNum0 == <<"0", "1", "0">>

\* The normalizer without the default prefix.
valid_tr_to_nodefault(tr_to) ==
    LET num_res == PatternMatch(StripStr(tr_to)) IN
    IF ~num_res.matched THEN [raised |-> "SMSError", value |-> <<>>]
    ELSE [raised |-> "none",
          value |-> num_res.num0 \o <<"-">> \o num_res.num1 \o <<"-">> \o num_res.num2]

valid_tr_to(tr_to) ==
    LET num_res == PatternMatch(StripStr(tr_to)) IN
    IF ~num_res.matched THEN [raised |-> "SMSError", value |-> <<>>]
    ELSE LET num0 == IF num_res.num0 # <<>> THEN num_res.num0 ELSE DefaultNum0
         IN  [raised |-> "none",
              value |-> num0 \o <<"-">> \o num_res.num1 \o <<"-">> \o num_res.num2]

----------------------------------------------------------------------------
\* _decode_response. php_loads gives a mapping whose keys and values are byte
\* strings or other values (integers); a mapping is a sequence of <<key,
\* value>> pairs with distinct keys, an item [t |-> "bytes" | "int" | "str",
\* v |-> its bytes, its value or its code points].

IsCont(x) == x >= 128 /\ x <= 191

\* The number of bytes of the first UTF-8 character of b, 0 when b does not
\* start with a well-formed one.
Utf8First(b) ==
    LET n == Len(b)
        b1 == b[1]
    IN  IF b1 < 128 THEN 1
        ELSE IF b1 >= 194 /\ b1 <= 223
            THEN IF n >= 2 /\ IsCont(b[2]) THEN 2 ELSE 0
        ELSE IF b1 >= 224 /\ b1 <= 239
            THEN IF /\ n >= 3 /\ IsCont(b[2]) /\ IsCont(b[3])
                    /\ (b1 = 224 => b[2] >= 160)
                    /\ (b1 = 237 => b[2] <= 159)
                 THEN 3 ELSE 0
        ELSE IF b1 >= 240 /\ b1 <= 244
            THEN IF /\ n >= 4 /\ IsCont(b[2]) /\ IsCont(b[3]) /\ IsCont(b[4])
                    /\ (b1 = 240 => b[2] >= 144)
                    /\ (b1 = 244 => b[2] <= 143)
                 THEN 4 ELSE 0
        ELSE 0

Utf8CodePoint(b, k) ==
    IF k = 1 THEN b[1]
    ELSE IF k = 2 THEN (b[1] - 192) * 64 + (b[2] - 128)
    ELSE IF k = 3 THEN (b[1] - 224) * 4096 + (b[2] - 128) * 64 + (b[3] - 128)
    ELSE (b[1] - 240) * 262144 + (b[2] - 128) * 4096 + (b[3] - 128) * 64 + (b[4] - 128)

\* bytes.decode('utf-8')
RECURSIVE Utf8Decode(_)
Utf8Decode(b) ==
    IF b = <<>> THEN [ok |-> TRUE, s |-> <<>>]
    ELSE LET k == Utf8First(b) IN
         IF k = 0 THEN [ok |-> FALSE, s |-> <<>>]
         ELSE LET rest == Utf8Decode(SubSeq(b, k + 1, Len(b))) IN
              IF ~rest.ok THEN rest
              ELSE [ok |-> TRUE, s |-> <<Utf8CodePoint(b, k)>> \o rest.s]

\* try: x = x.decode('utf-8') / except AttributeError: pass
\* A value that is no byte string has no decode and is kept; a byte string
\* that is not UTF-8 raises UnicodeDecodeError, which nothing catches.
TryDecode(x) ==
    IF x.t # "bytes" THEN [raised |-> "none", x |-> x]
    ELSE LET d == Utf8Decode(x.v) IN
         IF d.ok THEN [raised |-> "none", x |-> [t |-> "str", v |-> d.s]]
         ELSE [raised |-> "UnicodeDecodeError", x |-> x]

\* r[k] = v
DictPut(r, k, v) ==
    IF \E i \in 1..Len(r) : r[i][1] = k
    THEN [i \in 1..Len(r) |-> IF r[i][1] = k THEN <<k, v>> ELSE r[i]]
    ELSE Append(r, <<k, v>>)

RECURSIVE DecodeLoop(_, _)
DecodeLoop(items, r) ==
    IF items = <<>> THEN [raised |-> "none", r |-> r]
    ELSE LET k == TryDecode(Head(items)[1])
             v == TryDecode(Head(items)[2])
         IN  IF k.raised # "none" THEN [raised |-> k.raised, r |-> <<>>]
             ELSE IF v.raised # "none" THEN [raised |-> v.raised, r |-> <<>>]
             ELSE DecodeLoop(Tail(items), DictPut(r, k.x, v.x))

\* content: [wf |-> whether php_loads parses it, items |-> the mapping parsed]
decode_response(content) ==
    IF ~content.wf THEN [raised |-> "ValueError", r |-> <<>>]
    ELSE DecodeLoop(content.items, <<>>)

----------------------------------------------------------------------------
\* The inputs of the client's operations.

\* The characters of the texts: 'a' (one byte), the blank (one byte,
\* stripped), a KS X 1001 syllable (two bytes), a syllable outside KS X 1001
\* (eight bytes), the no-break space (stripped, not encodable) and an
\* accented letter (not encodable).
A == CHOOSE c \in {97} : TRUE
Blank == CHOOSE c \in {32} : TRUE
Ga == CHOOSE c \in DOMAIN KSX1001 : KSX1001[c] = <<176, 161>>
Ttom == CHOOSE c \in DOMAIN MakeUp : TRUE
Nbsp == CHOOSE c \in {160} : TRUE
Eacute == CHOOSE c \in {233} : TRUE

\* Message texts: an empty one, short ones, ones of at most 90 bytes once
\* stripped, and ones above 90 bytes that mix one-, two- and eight-byte
\* characters around the slicer's 44-character and 89/90-byte marks, with
\* and without blanks at their ends.
ShortTexts == { <<>>, <<Blank, A, Blank>>, <<Eacute>> }
FitTexts == { Rep(Ga, CharWindow + 1) }
LongTexts ==
    { Rep(Ga, CharWindow + 2),
      Rep(Ga, CharWindow) \o Rep(A, 3),
      <<Blank>> \o Rep(A, MaxBytes - 3) \o <<Ga, A, A>> }
WideTexts == { Rep(Ga, CharWindow) \o <<Ttom>> }
BadLongTexts == { <<Nbsp>> \o Rep(A, MaxBytes + 1) }

Texts == ShortTexts \cup FitTexts \cup LongTexts \cup WideTexts \cup BadLongTexts

\* Recipient strings: "01012345678" and the rejected "011-1234-5678".
MainRecipient == <<"0","1","0","1","2","3","4","5","6","7","8">>
Recipients ==
    { MainRecipient,
      <<"0","1","1","-","1","2","3","4","-","5","6","7","8">> }

\* The calls of add() the model makes: every text with the first recipient,
\* with auto_slice for a short text and for the texts above 90 bytes, and the
\* rejected recipient with a short text.
AddInputs ==
    { x \in Recipients \X Texts \X BOOLEAN :
        IF x[1] = MainRecipient
        THEN x[3] => x[2] \in {<<Blank, A, Blank>>} \cup LongTexts
                                  \cup WideTexts \cup BadLongTexts
        ELSE x[2] = <<Blank, A, Blank>> /\ ~x[3] }

\* The normalizer, strip(), the encoder, the decoder and the slicer on the
\* recipients and texts of the model, computed once.
NumMemo == [r \in Recipients |-> valid_tr_to(r)]
StripMemo == [t \in Texts |-> Strip(t)]
EncodeMemo == [t \in {Strip(x) : x \in Texts} |->
                  IF CanEncode(t) THEN EucKrEncode(t) ELSE <<>>]
RawEncodeMemo == [t \in Texts |-> IF CanEncode(t) THEN EucKrEncode(t) ELSE <<>>]
SliceMemo == [t \in Texts |-> slice_tr_txtmsg(t)]
Bodies ==
    {EncodeMemo[t] : t \in DOMAIN EncodeMemo}
    \cup {RawEncodeMemo[t] : t \in Texts}
    \cup UNION {{SliceMemo[t].segs[i] : i \in 1..Len(SliceMemo[t].segs)} : t \in Texts}
DecodeMemo == [b \in Bodies |-> EucKrDecode(b)]

----------------------------------------------------------------------------
\* SMS.add

Entry(tr_to, txt_bytes) ==
    [tr_to |-> tr_to, tr_txtmsg |-> txt_bytes,
     posted |-> FALSE]   \* whether a POST has carried this entry

\* add() encoding the text as given, not stripped.
add_nostrip(d, tr_to, tr_txtmsg, auto_slice) ==
    LET num == NumMemo[tr_to] IN
    IF num.raised # "none"
        THEN [data |-> d, raised |-> "SMSError: not correct number"]
    ELSE IF ~CanEncode(tr_txtmsg)
        THEN [data |-> d, raised |-> "UnicodeEncodeError"]
    ELSE LET txt_bytes == RawEncodeMemo[tr_txtmsg] IN
        IF Len(txt_bytes) = 0
            THEN [data |-> d, raised |-> "SMSError: tr_txtmsg is empty"]
        ELSE IF Len(txt_bytes) > MaxBytes THEN
            IF ~auto_slice
                THEN [data |-> d, raised |-> "SMSError: tr_txtmsg is too long"]
            ELSE LET s == SliceMemo[tr_txtmsg] IN
                IF s.raised # "none" THEN [data |-> d, raised |-> s.raised]
                ELSE [data |-> d \o [i \in 1..Len(s.segs) |->
                                        Entry(num.value, s.segs[i])],
                      raised |-> "none"]
        ELSE [data |-> Append(d, Entry(num.value, txt_bytes)),
              raised |-> "none"]

\* add() queueing a text that is too long before it raises.
add_queueing(d, tr_to, tr_txtmsg, auto_slice) ==
    LET num == NumMemo[tr_to]
        stripped == StripMemo[tr_txtmsg]
    IN  IF num.raised # "none"
            THEN [data |-> d, raised |-> "SMSError: not correct number"]
        ELSE IF ~CanEncode(stripped)
            THEN [data |-> d, raised |-> "UnicodeEncodeError"]
        ELSE LET txt_bytes == EncodeMemo[stripped] IN
            IF Len(txt_bytes) = 0
                THEN [data |-> d, raised |-> "SMSError: tr_txtmsg is empty"]
            ELSE IF Len(txt_bytes) > MaxBytes THEN
                IF ~auto_slice
                    THEN [data |-> Append(d, Entry(num.value, txt_bytes)),
                          raised |-> "SMSError: tr_txtmsg is too long"]
                ELSE LET s == SliceMemo[tr_txtmsg] IN
                    IF s.raised # "none" THEN [data |-> d, raised |-> s.raised]
                    ELSE [data |-> d \o [i \in 1..Len(s.segs) |->
                                            Entry(num.value, s.segs[i])],
                          raised |-> "none"]
            ELSE [data |-> Append(d, Entry(num.value, txt_bytes)),
                  raised |-> "none"]

add(d, tr_to, tr_txtmsg, auto_slice) ==
    LET num == NumMemo[tr_to]
        stripped == StripMemo[tr_txtmsg]
    IN  IF num.raised # "none"
            THEN [data |-> d, raised |-> "SMSError: not correct number"]
        ELSE IF ~CanEncode(stripped)
            THEN [data |-> d, raised |-> "UnicodeEncodeError"]
        ELSE LET txt_bytes == EncodeMemo[stripped] IN
            IF Len(txt_bytes) = 0
                THEN [data |-> d, raised |-> "SMSError: tr_txtmsg is empty"]
            ELSE IF Len(txt_bytes) > MaxBytes THEN
                IF ~auto_slice
                    THEN [data |-> d, raised |-> "SMSError: tr_txtmsg is too long"]
                ELSE LET s == SliceMemo[tr_txtmsg] IN
                    IF s.raised # "none" THEN [data |-> d, raised |-> s.raised]
                    ELSE [data |-> d \o [i \in 1..Len(s.segs) |->
                                            Entry(num.value, s.segs[i])],
                          raised |-> "none"]
            ELSE [data |-> Append(d, Entry(num.value, txt_bytes)),
                  raised |-> "none"]

\* SMS.get
get(d) == [i \in 1..Len(d) |->
              [tr_to |-> d[i].tr_to, tr_txtmsg |-> DecodeMemo[d[i].tr_txtmsg]]]

----------------------------------------------------------------------------
\* The gateway: what one POST is answered with. raised is the exception
\* req_post raises ("none" when it returns), content what php_loads makes of
\* the body returned.

Bytes(b) == [t |-> "bytes", v |-> b]
IntVal(n) == [t |-> "int", v |-> <<n>>]

OkContent == [wf |-> TRUE, items |-> << <<Bytes(<<114>>), Bytes(<<49>>)>> >>]
ErrContent == [wf |-> TRUE, items |-> << <<Bytes(<<114>>), Bytes(<<48>>)>>,
                                         <<IntVal(0), IntVal(7)>> >>]
\* a message in the gateway's own encoding: not UTF-8
EucKrContent == [wf |-> TRUE, items |-> << <<Bytes(<<114>>), Bytes(<<176, 161>>)>> >>]
Malformed == [wf |-> FALSE, items |-> <<>>]

Answer(content) == [raised |-> "none", content |-> content]
ConnectionError == [raised |-> "ConnectionError", content |-> Malformed]

FailReplies == {ConnectionError, Answer(Malformed), Answer(EucKrContent)}

\* The answers to the n POSTs of one send(): the k-th fails as `bad` (none
\* when k = 0), the others report success and an application-level error in
\* turn.
Replies(n, k, bad, flip) ==
    [i \in 1..n |->
        IF i = k THEN bad
        ELSE IF (i % 2 = 1) = flip THEN Answer(OkContent) ELSE Answer(ErrContent)]

Comments == { [given |-> FALSE, text |-> <<>>],
              [given |-> TRUE, text |-> <<A, Ga>>],
              [given |-> TRUE, text |-> <<Eacute>>] }

\* tr_date: <<>> for None, <<m>> for the minute m.
Dates == { <<m>> : m \in ReserveMinutes..(MaxNow + ReserveMinutes - 1) }

----------------------------------------------------------------------------
\* SMS.send

Post(type, phone, sms, date, msg, again, reply) ==
    [type |-> type, phone |-> phone, sms |-> sms, date |-> date, msg |-> msg,
     again |-> again,   \* whether an earlier POST carried the same entry
     reply |-> reply]   \* what the gateway answered

RECURSIVE SendLoop(_, _, _, _, _, _, _)
SendLoop(d, i, tr_date_str, msg, replies, posts, result_list) ==
    IF i > Len(d)
    THEN \* self.__data.clear(); return result_list
         [data |-> <<>>, raised |-> "none", posts |-> posts, result |-> result_list]
    ELSE LET reply == replies[i]
             posts2 == Append(posts, Post("send", d[i].tr_to, d[i].tr_txtmsg,
                                          tr_date_str, msg, d[i].posted, reply))
             d2 == [d EXCEPT ![i].posted = TRUE]
         IN  IF reply.raised # "none"
             THEN [data |-> d2, raised |-> reply.raised, posts |-> posts2, result |-> <<>>]
             ELSE LET res == decode_response(reply.content) IN
                  IF res.raised # "none"
                  THEN [data |-> d2, raised |-> res.raised, posts |-> posts2,
                        result |-> <<>>]
                  ELSE SendLoop(d2, i + 1, tr_date_str, msg, replies, posts2,
                                Append(result_list, res.r))

\* send() putting each response in front of the list.
RECURSIVE SendLoopFront(_, _, _, _, _, _, _)
SendLoopFront(d, i, tr_date_str, msg, replies, posts, result_list) ==
    IF i > Len(d)
    THEN [data |-> <<>>, raised |-> "none", posts |-> posts, result |-> result_list]
    ELSE LET reply == replies[i]
             posts2 == Append(posts, Post("send", d[i].tr_to, d[i].tr_txtmsg,
                                          tr_date_str, msg, d[i].posted, reply))
             d2 == [d EXCEPT ![i].posted = TRUE]
         IN  IF reply.raised # "none"
             THEN [data |-> d2, raised |-> reply.raised, posts |-> posts2, result |-> <<>>]
             ELSE LET res == decode_response(reply.content) IN
                  IF res.raised # "none"
                  THEN [data |-> d2, raised |-> res.raised, posts |-> posts2,
                        result |-> <<>>]
                  ELSE SendLoopFront(d2, i + 1, tr_date_str, msg, replies, posts2,
                                     <<res.r>> \o result_list)

send_front(d, tr_date, now, tr_comment, replies) ==
    IF d = <<>>
        THEN [data |-> d, raised |-> "SMSError: no data", posts |-> <<>>, result |-> <<>>]
    ELSE IF tr_date # <<>> /\ tr_date[1] < now + ReserveMinutes
        THEN [data |-> d, raised |-> "SMSError: reservation", posts |-> <<>>,
              result |-> <<>>]
    ELSE IF tr_comment.given /\ ~CanEncode(tr_comment.text)
        THEN [data |-> d, raised |-> "UnicodeEncodeError", posts |-> <<>>,
              result |-> <<>>]
    ELSE SendLoopFront(d, 1, tr_date,
                       IF tr_comment.given THEN EucKrEncode(tr_comment.text) ELSE <<>>,
                       replies, <<>>, <<>>)

\* send() refusing a schedule of exactly three minutes from now.
send_strict(d, tr_date, now, tr_comment, replies) ==
    IF d = <<>>
        THEN [data |-> d, raised |-> "SMSError: no data", posts |-> <<>>, result |-> <<>>]
    ELSE IF tr_date # <<>> /\ tr_date[1] <= now + ReserveMinutes
        THEN [data |-> d, raised |-> "SMSError: reservation", posts |-> <<>>,
              result |-> <<>>]
    ELSE IF tr_comment.given /\ ~CanEncode(tr_comment.text)
        THEN [data |-> d, raised |-> "UnicodeEncodeError", posts |-> <<>>,
              result |-> <<>>]
    ELSE SendLoop(d, 1, tr_date,
                  IF tr_comment.given THEN EucKrEncode(tr_comment.text) ELSE <<>>,
                  replies, <<>>, <<>>)

send(d, tr_date, now, tr_comment, replies) ==
    IF d = <<>>
        THEN [data |-> d, raised |-> "SMSError: no data", posts |-> <<>>, result |-> <<>>]
    ELSE IF tr_date # <<>> /\ tr_date[1] < now + ReserveMinutes
        THEN [data |-> d, raised |-> "SMSError: reservation", posts |-> <<>>,
              result |-> <<>>]
    ELSE IF tr_comment.given /\ ~CanEncode(tr_comment.text)
        THEN [data |-> d, raised |-> "UnicodeEncodeError", posts |-> <<>>,
              result |-> <<>>]
    ELSE SendLoop(d, 1, tr_date,
                  IF tr_comment.given THEN EucKrEncode(tr_comment.text) ELSE <<>>,
                  replies, <<>>, <<>>)

\* SMS.view and SMS.cancel: one POST, its answer decoded.
request(type, date, reply) ==
    LET posts == <<Post(type, <<>>, <<>>, date, <<>>, FALSE, reply)>> IN
    IF reply.raised # "none"
    THEN [raised |-> reply.raised, posts |-> posts, result |-> <<>>]
    ELSE LET res == decode_response(reply.content) IN
         IF res.raised # "none"
         THEN [raised |-> res.raised, posts |-> posts, result |-> <<>>]
         ELSE [raised |-> "none", posts |-> posts, result |-> <<res.r>>]

MinutesPerDay == 24 * 60

----------------------------------------------------------------------------
\* The client.

NoCall ==
    [op |-> "init", tr_to |-> <<>>, tr_txtmsg |-> <<>>, auto_slice |-> FALSE,
     tr_date |-> <<>>, now |-> 0, tr_comment |-> [given |-> FALSE, text |-> <<>>],
     raised |-> "none", posts |-> <<>>, result |-> <<>>]

NoNumber == [raised |-> "pending", value |-> <<>>]
NoResponse == [raised |-> "pending", r |-> <<>>]

Init ==
    /\ data = <<>>
    /\ last = NoCall
    /\ num_in = <<>> /\ num_out = NoNumber
    /\ res_in = Malformed /\ res_out = NoResponse

Add(tr_to, tr_txtmsg, auto_slice) ==
    /\ Len(data) < MaxQueue
    /\ LET r == add(data, tr_to, tr_txtmsg, auto_slice) IN
        /\ data' = r.data
        /\ last' = [NoCall EXCEPT !.op = "add", !.tr_to = tr_to,
                       !.tr_txtmsg = tr_txtmsg, !.auto_slice = auto_slice,
                       !.raised = r.raised]
    /\ UNCHANGED <<num_in, num_out, res_in, res_out>>

Get ==
    /\ last' = [NoCall EXCEPT !.op = "get", !.result = get(data)]
    /\ UNCHANGED <<data, num_in, num_out, res_in, res_out>>

View(reply) ==
    /\ LET r == request("view", <<>>, reply) IN
        last' = [NoCall EXCEPT !.op = "view", !.raised = r.raised,
                    !.posts = r.posts, !.result = r.result]
    /\ UNCHANGED <<data, num_in, num_out, res_in, res_out>>

Cancel(now, reply) ==
    /\ LET r == request("cancel", <<now + MinutesPerDay>>, reply) IN
        last' = [NoCall EXCEPT !.op = "cancel", !.now = now, !.raised = r.raised,
                    !.posts = r.posts, !.result = r.result]
    /\ UNCHANGED <<data, num_in, num_out, res_in, res_out>>

Send(tr_date, now, tr_comment, replies) ==
    /\ LET r == send(data, tr_date, now, tr_comment, replies) IN
        /\ data' = r.data
        /\ last' = [NoCall EXCEPT !.op = "send", !.tr_date = tr_date, !.now = now,
                       !.tr_comment = tr_comment, !.raised = r.raised,
                       !.posts = r.posts, !.result = r.result]
    /\ UNCHANGED <<num_in, num_out, res_in, res_out>>

\* The calls of send() the model makes: every schedule and every comment
\* with a gateway that answers every POST, and an immediate send with every
\* way a POST can fail.
Next ==
    \/ \E x \in AddInputs : Add(x[1], x[2], x[3])
    \/ Get
    \/ \E reply \in {Answer(OkContent), ConnectionError} : View(reply)
    \/ \E reply \in {Answer(ErrContent), Answer(EucKrContent)} : Cancel(0, reply)
    \/ \E tr_date \in Dates, now \in 0..MaxNow :
            Send(tr_date, now, [given |-> FALSE, text |-> <<>>],
                 Replies(Len(data), 0, ConnectionError, TRUE))
    \/ \E tr_comment \in Comments, flip \in BOOLEAN :
            /\ flip \/ ~tr_comment.given
            /\ Send(<<>>, 0, tr_comment, Replies(Len(data), 0, ConnectionError, flip))
    \/ \E k \in {1, Len(data)}, bad \in FailReplies :
            Send(<<>>, 0, [given |-> FALSE, text |-> <<>>],
                 Replies(Len(data), k, bad, FALSE))

Spec == Init /\ [][Next]_vars

----------------------------------------------------------------------------
\* _valid_tr_to on its own: a call on each string of NumInputs.

MidDigits(n) == SubSeq(<<"1", "2", "3", "4", "5", "6", "7", "8", "9">>, 1, n)
EndDigits(n) == SubSeq(<<"5", "6", "7", "8", "9", "0", "1", "2", "3">>, 1, n)

\* Strings put together from white space, a prefix, a separator, a group of
\* 0..MaxGroup digits, a separator, a group of 3..MaxGroup digits and a tail.
NumInputs ==
    { lead \o pre \o sep1 \o MidDigits(n1) \o sep2 \o EndDigits(n2) \o tail :
        lead \in {<<>>, <<" ">>},
        pre \in {<<>>, <<"0","1","0">>, <<"0","7","0">>, <<"0","1","1">>, <<"1","1","0">>},
        sep1 \in {<<>>, <<"-">>, <<".">>, <<" ">>, <<"/">>},
        n1 \in 0..MaxGroup,
        sep2 \in {<<>>, <<"-">>, <<"/">>},
        n2 \in 3..MaxGroup,
        tail \in {<<>>, <<"\t">>, <<"a">>} }

InitNorm ==
    /\ data = <<>>
    /\ last = NoCall
    /\ num_in \in NumInputs /\ num_out = NoNumber
    /\ res_in = Malformed /\ res_out = NoResponse

Normalize ==
    /\ num_out = NoNumber
    /\ num_out' = valid_tr_to(num_in)
    /\ UNCHANGED <<data, last, num_in, res_in, res_out>>

NextNorm == Normalize

SpecNorm == InitNorm /\ [][NextNorm]_vars

----------------------------------------------------------------------------
\* _decode_response on its own: a call on each mapping of Contents.

\* Byte strings that are UTF-8 ("k", "A", e-acute, the euro sign) and that
\* are not (a syllable in EUC-KR, a cut-off e-acute), and integers.
KeyItems == { Bytes(<<107>>), Bytes(<<176, 161>>), IntVal(0) }
ValueItems ==
    { Bytes(<<65>>), Bytes(<<195, 169>>), Bytes(<<226, 130, 172>>),
      Bytes(<<65, 195>>), IntVal(7) }

\* The mappings of n entries: the keys of a mapping differ.
RECURSIVE Mappings(_)
Mappings(n) ==
    IF n = 0 THEN {<<>>}
    ELSE { Append(m, <<k, v>>) :
             m \in Mappings(n - 1),
             k \in KeyItems, v \in ValueItems }

DistinctKeys(m) == \A i, j \in 1..Len(m) : i # j => m[i][1] # m[j][1]

Contents ==
    {Malformed} \cup
    { [wf |-> TRUE, items |-> m] :
        m \in {x \in UNION {Mappings(n) : n \in 0..MaxItems} : DistinctKeys(x)} }

InitDecode ==
    /\ data = <<>>
    /\ last = NoCall
    /\ num_in = <<>> /\ num_out = NoNumber
    /\ res_in \in Contents /\ res_out = NoResponse

Decode ==
    /\ res_out = NoResponse
    /\ res_out' = decode_response(res_in)
    /\ UNCHANGED <<data, last, num_in, num_out, res_in>>

NextDecode == Decode

SpecDecode == InitDecode /\ [][NextDecode]_vars

----------------------------------------------------------------------------
\* Properties. A step of the client is read from last', the call the step
\* made; data is the queue before the call and data' the queue after it.

Normalized(c) == NumMemo[c.tr_to]
TooSoon(c) == c.tr_date # <<>> /\ c.tr_date[1] < c.now + ReserveMinutes
Rejected(c) == c.raised \in {"SMSError: no data", "SMSError: reservation"}
Carries(p, e) == p.type = "send" /\ p.phone = e.tr_to /\ p.sms = e.tr_txtmsg
Failed(p) ==
    p.reply.raised # "none" \/ decode_response(p.reply.content).raised # "none"
Received(p) == decode_response(p.reply.content).r

\* The texts of ss joined in order.
RECURSIVE Flatten(_)
Flatten(ss) == IF ss = <<>> THEN <<>> ELSE Head(ss) \o Flatten(Tail(ss))

\* The characters of a body take at most three bytes each.
NarrowBodies ==
    { b \in Bodies :
        \A j \in 1..Len(DecodeMemo[b]) : Len(EncodeChar(DecodeMemo[b][j])) <= 3 }

Narrow(b) == b \in NarrowBodies

\* C1: a send() that passed its precondition checks and went on to POST
\* leaves the queue empty when it finishes, whatever each POST came to.
C1_QueueEmptyAfterSend ==
    (last.op = "send" /\ ~Rejected(last) /\ last.posts # <<>>) => data = <<>>

\* C2: in every reachable state every queue entry whose characters encode to
\* at most three bytes each has a body of more than 0 and at most 90 bytes.
C2_BodyLength ==
    \A i \in 1..Len(data) :
        Narrow(data[i].tr_txtmsg) =>
            Len(data[i].tr_txtmsg) > 0 /\ Len(data[i].tr_txtmsg) <= 90

\* A sliced add() has left three or more entries of narrow characters in the
\* queue, one of them of exactly 90 bytes.
C2_Witness ==
    /\ last.op = "add" /\ last.auto_slice /\ last.raised = "none"
    /\ Len(data) >= 3
    /\ \A i \in 1..Len(data) : Narrow(data[i].tr_txtmsg)
    /\ \E i \in 1..Len(data) : Len(data[i].tr_txtmsg) = 90
    /\ \E i \in 1..Len(data) : Len(data[i].tr_txtmsg) = 89

\* C3: add(recipient, text, allow_slice=true) with a valid recipient and a
\* text that encodes to more than 90 bytes appends at least two entries to
\* the end of the queue, all with the normalized recipient, whose bodies
\* decoded and joined in order are the text.
C3_SliceAppends ==
    [][ LET c == last' IN
        ( /\ c.op = "add" /\ c.auto_slice
          /\ Normalized(c).raised = "none"
          /\ CanEncode(c.tr_txtmsg)
          /\ Len(RawEncodeMemo[c.tr_txtmsg]) > 90 )
        => /\ c.raised = "none"
           /\ Len(data') >= Len(data) + 2
           /\ SubSeq(data', 1, Len(data)) = data
           /\ \A i \in (Len(data) + 1)..Len(data') :
                  data'[i].tr_to = Normalized(c).value
           /\ Flatten([i \in 1..(Len(data') - Len(data)) |->
                          DecodeMemo[data'[Len(data) + i].tr_txtmsg]])
              = c.tr_txtmsg ]_vars

\* C4 as stated: send() on a non-empty queue of N entries with an acceptable
\* schedule issues exactly N POSTs, the k-th carrying the k-th entry, and
\* returns exactly N decoded responses, the k-th the one received for the
\* k-th entry.
C4_AlwaysAllPosts ==
    [][ LET c == last' IN
        (c.op = "send" /\ data # <<>> /\ ~TooSoon(c))
        => /\ Len(c.posts) = Len(data)
           /\ \A k \in 1..Len(c.posts) : Carries(c.posts[k], data[k])
           /\ Len(c.result) = Len(data)
           /\ \A k \in 1..Len(c.result) : c.result[k] = Received(c.posts[k]) ]_vars

\* C4 as amended: such a send() POSTs the entries one by one in queue order
\* and stops at the first POST that raises a transport error or whose
\* response cannot be decoded. When it raises nothing it has issued exactly
\* N POSTs and returns exactly N decoded responses, the k-th the one received
\* for the k-th entry; when it raises it returns nothing.
C4_PostsInOrder ==
    [][ LET c == last' IN
        (c.op = "send" /\ data # <<>> /\ ~TooSoon(c))
        => /\ Len(c.posts) <= Len(data)
           /\ \A k \in 1..Len(c.posts) : Carries(c.posts[k], data[k])
           /\ \A k \in 1..(Len(c.posts) - 1) : ~Failed(c.posts[k])
           /\ c.raised = "none" =>
                /\ Len(c.posts) = Len(data)
                /\ Len(c.result) = Len(data)
                /\ \A k \in 1..Len(c.result) : c.result[k] = Received(c.posts[k])
           /\ c.raised # "none" =>
                /\ c.result = <<>>
                /\ c.posts # <<>> => Failed(c.posts[Len(c.posts)]) ]_vars

\* A send() has returned two responses that differ, for two POSTs.
C4_Witness ==
    /\ last.op = "send" /\ last.raised = "none"
    /\ Len(last.posts) = 2 /\ Len(last.result) = 2
    /\ last.result[1] # last.result[2]

\* C5: send() raises "no data" on an empty queue and the reservation error
\* on a schedule less than 3 minutes after now, in no other case, and a
\* send() that raises either has issued no POST and leaves the queue as it
\* was.
C5_RejectedSend ==
    [][ LET c == last' IN
        c.op = "send"
        => /\ data = <<>> => c.raised = "SMSError: no data"
           /\ (data # <<>> /\ TooSoon(c)) => c.raised = "SMSError: reservation"
           /\ Rejected(c) =>
                /\ data = <<>> \/ TooSoon(c)
                /\ c.posts = <<>>
                /\ data' = data ]_vars

\* A send() scheduled too soon was refused with entries in the queue.
C5_Witness ==
    /\ last.op = "send" /\ last.raised = "SMSError: reservation"
    /\ last.posts = <<>> /\ data # <<>>

\* C6: an add() that raises leaves the queue as it was, and add() raises for
\* a recipient the normalizer rejects, for a text that encodes to 0 bytes
\* once stripped and, without allow_slice, for one that encodes to more than
\* 90 bytes once stripped.
C6_FailedAdd ==
    [][ LET c == last'
            body == EncodeMemo[StripMemo[c.tr_txtmsg]]
        IN  c.op = "add"
            => /\ c.raised # "none" => data' = data
               /\ Normalized(c).raised # "none" =>
                    c.raised = "SMSError: not correct number"
               /\ (Normalized(c).raised = "none" /\ CanEncode(StripMemo[c.tr_txtmsg]))
                    => /\ Len(body) = 0 => c.raised = "SMSError: tr_txtmsg is empty"
                       /\ (Len(body) > 90 /\ ~c.auto_slice) =>
                            c.raised = "SMSError: tr_txtmsg is too long" ]_vars

\* An add() of a text that is too long was refused with an entry in the queue.
C6_Witness ==
    /\ last.op = "add" /\ last.raised = "SMSError: tr_txtmsg is too long"
    /\ data # <<>>

\* C7 as stated: add() with a valid recipient and a text that encodes to 1
\* to 90 bytes appends exactly one entry, the normalized recipient and the
\* encoded text, after the earlier entries.
C7_EncodedTextAppended ==
    [][ LET c == last' IN
        ( /\ c.op = "add"
          /\ Normalized(c).raised = "none"
          /\ CanEncode(c.tr_txtmsg)
          /\ Len(RawEncodeMemo[c.tr_txtmsg]) >= 1
          /\ Len(RawEncodeMemo[c.tr_txtmsg]) <= 90 )
        => /\ c.raised = "none"
           /\ data' = Append(data, [tr_to |-> Normalized(c).value,
                                    tr_txtmsg |-> RawEncodeMemo[c.tr_txtmsg],
                                    posted |-> FALSE]) ]_vars

\* C7 as amended: add() with a valid recipient and a text that, stripped of
\* the white space at its ends, encodes to 1 to 90 bytes appends exactly one
\* entry, the normalized recipient and the encoded stripped text, after the
\* earlier entries.
C7_StrippedTextAppended ==
    [][ LET c == last' IN
        ( /\ c.op = "add"
          /\ Normalized(c).raised = "none"
          /\ CanEncode(StripMemo[c.tr_txtmsg])
          /\ Len(EncodeMemo[StripMemo[c.tr_txtmsg]]) >= 1
          /\ Len(EncodeMemo[StripMemo[c.tr_txtmsg]]) <= 90 )
        => /\ c.raised = "none"
           /\ data' = Append(data, [tr_to |-> Normalized(c).value,
                                    tr_txtmsg |-> EncodeMemo[StripMemo[c.tr_txtmsg]],
                                    posted |-> FALSE]) ]_vars

\* add("01012345678", " a ") after an entry of 90 bytes: the queue ends with
\* ("010-1234-5678", b"a").
C7_Witness ==
    /\ last.op = "add" /\ last.raised = "none"
    /\ last.tr_to = MainRecipient /\ last.tr_txtmsg = <<Blank, A, Blank>>
    /\ Len(data) = 2
    /\ Len(data[1].tr_txtmsg) = 90
    /\ data[2].tr_to = <<"0","1","0","-","1","2","3","4","-","5","6","7","8">>
    /\ data[2].tr_txtmsg = <<97>>

\* The ways of reading s as prefix, separator, group of 3 or 4 digits,
\* separator, group of 4 digits, each but the groups optional; the prefix is
\* any three digits (loose) or a zero, a digit and a zero.
Readings(s, loose) ==
    { <<SubSeq(s, 1, n0),
        SubSeq(s, n0 + k1 + 1, n0 + k1 + n1),
        SubSeq(s, n0 + k1 + n1 + k2 + 1, Len(s))>> :
        <<n0, k1, n1, k2>> \in
            { w \in {0, 3} \X {0, 1} \X {3, 4} \X {0, 1} :
                /\ Len(s) = w[1] + w[2] + w[3] + w[4] + 4
                /\ IsDigits(SubSeq(s, 1, w[1]))
                /\ (w[1] = 3 /\ ~loose) => (s[1] = "0" /\ s[3] = "0")
                /\ w[2] = 1 => s[w[1] + 1] \in {" ", "\t", "-", "."}
                /\ IsDigits(SubSeq(s, w[1] + w[2] + 1, w[1] + w[2] + w[3]))
                /\ w[4] = 1 => s[w[1] + w[2] + w[3] + 1] \in {" ", "\t", "-", "."}
                /\ IsDigits(SubSeq(s, w[1] + w[2] + w[3] + w[4] + 1, Len(s))) } }

Joined(r) ==
    (IF r[1] = <<>> THEN <<"0", "1", "0">> ELSE r[1])
        \o <<"-">> \o r[2] \o <<"-">> \o r[3]

NormalizerAgrees(loose) ==
    num_out # NoNumber =>
        LET rs == Readings(StripStr(num_in), loose) IN
        IF rs = {} THEN num_out.raised = "SMSError"
        ELSE num_out.raised = "none" /\ \A r \in rs : num_out.value = Joined(r)

\* C8 as stated: a stripped input that reads as optional 3-digit prefix,
\* optional separator, 3-4 digits, optional separator, 4 digits gives prefix
\* (its own, or "010"), middle and last group joined by dashes; any other
\* input is rejected.
C8_AnyPrefix == NormalizerAgrees(TRUE)

\* C8 as amended: the same, the optional prefix being a zero, a digit and a
\* zero.
C8_ZeroDigitZeroPrefix == NormalizerAgrees(FALSE)

\* " 070-123-5678" and the like: the input's own prefix is kept.
C8_Witness ==
    /\ num_out.raised = "none"
    /\ SubSeq(num_out.value, 1, 4) = <<"0", "7", "0", "-">>
    /\ Len(num_in) > Len(num_out.value)

\* C9: for a well-formed mapping the decoder does not fail and returns one
\* entry per entry, each key and value that is a UTF-8 byte string replaced
\* by its text and every other one kept as it is.
TextOrRaw(x) ==
    IF x.t = "bytes" /\ Utf8Decode(x.v).ok
    THEN [t |-> "str", v |-> Utf8Decode(x.v).s]
    ELSE x

C9_UndecodableKept ==
    (res_out # NoResponse /\ res_in.wf)
    => /\ res_out.raised = "none"
       /\ res_out.r = [i \in 1..Len(res_in.items) |->
                          <<TextOrRaw(res_in.items[i][1]),
                            TextOrRaw(res_in.items[i][2])>>]

\* C10: no POST of a send() carries an entry that an earlier POST carried.
C10_PostedOnce ==
    last.op = "send" => \A i \in 1..Len(last.posts) : ~last.posts[i].again

====
